---- MODULE Spec2Model ----
(***************************************************************************)
(* Verification model of the Glide Go SDK.                                 *)
(*                                                                         *)
(*  - package glide: the HTTP transport (Client.doRequest / performRequest *)
(*    / parseErrorResponse / genericErrorForStatus, Error.IsRetryable).    *)
(*  - package ogi:   the session authenticator (GlideClient.Authenticate,  *)
(*    getCibaSession, pollCibaToken, fetchCibaToken,                       *)
(*    ExchangeCodeForSession).                                             *)
(*                                                                         *)
(* Two specifications share the module: Spec drives doRequest, SpecAuth    *)
(* drives the GlideClient.  Each leaves the other component's variables    *)
(* at their initial value.                                                 *)
(***************************************************************************)
EXTENDS Integers, Sequences, FiniteSets, TLC

VARIABLES
    \* ---- glide.Client / one doRequest call ----
    config,     \* Client.config: RetryCount, RetryDelay, RateLimitEnabled
    tpc,        \* position of the doRequest call
    attempt,    \* loop variable `attempt`
    lastErr,    \* local `lastErr`
    hist,       \* every performRequest call of this doRequest call: what
                \* the exchange was and the (body, err) it returned
    waits,      \* the backoff delays this call has waited, in order
    tokens,     \* rate-limiter tokens this call has taken
    ctxDone,    \* the caller's context has been cancelled
    ret,        \* what doRequest returned: [body, err]
    \* ---- ogi.GlideClient ----
    session,    \* GlideClient.session (the cached session)
    apc,        \* position of the running ogi call
    call,       \* the running (or last finished) ogi call
    prev,       \* the ogi call that finished before `call`
    poll,       \* state of pollCibaToken: interval, clock, ticker, endpoint
    \* ---- pure functions of package glide ----
    probe,      \* the last application of a function: its input and result
    \* ---- goroutines calling Authenticate on one GlideClient ----
    callers     \* per goroutine: position, whether it ran a flow, its result

tvars == <<config, tpc, attempt, lastErr, hist, waits, tokens, ctxDone, ret>>
avars == <<session, apc, call, prev, poll>>
pvars == <<probe>>
cvars == <<callers>>
vars == <<config, tpc, attempt, lastErr, hist, waits, tokens, ctxDone, ret,
          session, apc, call, prev, poll, probe, callers>>

----------------------------------------------------------------------------
(* Bounds of the model *)

\* largest RetryCount a configuration is given
MaxRetry == 2
\* largest number of token-endpoint polls followed in one Authenticate call
MaxPolls == 4
\* largest number of authorization requests answered with an auth_req_id
MaxAuthRequests == 3
\* number of goroutines that call Authenticate on one client at once
NumCallers == 3

----------------------------------------------------------------------------
(* package glide: errors *)

ErrCodeBadRequest == "BAD_REQUEST"
ErrCodeValidationError == "VALIDATION_ERROR"
ErrCodeSessionNotFound == "SESSION_NOT_FOUND"
ErrCodeUnprocessableEntity == "UNPROCESSABLE_ENTITY"
ErrCodeCarrierNotEligible == "CARRIER_NOT_ELIGIBLE"
ErrCodeRateLimitExceeded == "RATE_LIMIT_EXCEEDED"
ErrCodeTooManyRequests == "TOO_MANY_REQUESTS"
ErrCodeQuotaExceeded == "QUOTA_EXCEEDED"
ErrCodeInternalServerError == "INTERNAL_SERVER_ERROR"
ErrCodeBadGateway == "BAD_GATEWAY"
ErrCodeUpstreamError == "UPSTREAM_ERROR"
ErrCodeServiceUnavailable == "SERVICE_UNAVAILABLE"
ErrCodeDownstreamServiceError == "DOWNSTREAM_SERVICE_ERROR"
ErrCodeProviderError == "PROVIDER_ERROR"
ErrCodeCircuitBreakerOpen == "CIRCUIT_BREAKER_OPEN"
ErrCodeMaintenanceMode == "MAINTENANCE_MODE"
ErrCodeGatewayTimeout == "GATEWAY_TIMEOUT"
ErrCodeRequestTimeout == "REQUEST_TIMEOUT"
ErrCodeUpstreamTimeout == "UPSTREAM_TIMEOUT"
ErrCodeDeadlineExceeded == "DEADLINE_EXCEEDED"

\* the remaining codes of the const block, none of them named by
\* IsRetryable or genericErrorForStatus
OtherErrCodes ==
    { "INVALID_PARAMETERS", "MISSING_PARAMETERS", "INVALID_PHONE_NUMBER",
      "INVALID_MCC_MNC", "UNAUTHORIZED", "INVALID_CREDENTIALS",
      "EXPIRED_TOKEN", "TOKEN_ACQUISITION_FAILED", "INVALID_API_KEY",
      "MISSING_AUTH_HEADER", "FORBIDDEN", "INSUFFICIENT_PERMISSIONS",
      "ACCESS_DENIED", "NOT_FOUND", "RESOURCE_NOT_FOUND", "CARRIER_NOT_FOUND",
      "ENDPOINT_NOT_FOUND", "CONFLICT", "RESOURCE_ALREADY_EXISTS",
      "DUPLICATE_SESSION", "CONCURRENT_MODIFICATION",
      "UNSUPPORTED_VERIFICATION", "INVALID_VERIFICATION",
      "VERIFICATION_FAILED", "OTP_EXPIRED", "OTP_INVALID", "RCS_UNAVAILABLE",
      "CARRIER_IDENTIFICATION_FAILED", "UNSUPPORTED_CARRIER",
      "UNSUPPORTED_PLATFORM", "UNSUPPORTED_STRATEGY", "INVALID_SESSION_STATE",
      "PHONE_NUMBER_MISMATCH", "INVALID_CREDENTIAL_FORMAT",
      "CIRCUIT_BREAKER_CONFIGURATION_ERROR", "DATABASE_ERROR", "CACHE_ERROR",
      "SERIALIZATION_ERROR", "CRYPTO_ERROR", "INVALID_RESPONSE" }

\* the nil error (a Go nil `error` interface value)
NilErr == [Code |-> "<nil>", Status |-> 0]
\* a nil []byte
NilBody == "<nil>"

NewError(code) == [Code |-> code, Status |-> 0]

NewErrorWithStatus(code, status) == [Code |-> code, Status |-> status]

RetryableCodes ==
    { ErrCodeRateLimitExceeded, ErrCodeTooManyRequests, ErrCodeQuotaExceeded,
      ErrCodeServiceUnavailable, ErrCodeDownstreamServiceError,
      ErrCodeProviderError, ErrCodeCircuitBreakerOpen, ErrCodeMaintenanceMode,
      ErrCodeGatewayTimeout, ErrCodeRequestTimeout, ErrCodeUpstreamTimeout,
      ErrCodeDeadlineExceeded, ErrCodeBadGateway, ErrCodeUpstreamError }

\* mutant: only the code is looked at
IsRetryable_CodeOnly(e) == e.Code \in RetryableCodes

IsRetryable(e) ==
    IF e.Code \in RetryableCodes
        THEN TRUE
        ELSE e.Status >= 500 /\ e.Status < 600

\* mutant: the mapping of an earlier genericErrorForStatus, with codes of
\* their own for 401, 403, 404 and the unexpected statuses
genericErrorForStatus_Earlier(status) ==
    CASE status = 400 -> NewErrorWithStatus(ErrCodeBadRequest, status)
      [] status = 401 -> NewErrorWithStatus("UNAUTHORIZED", status)
      [] status = 403 -> NewErrorWithStatus("FORBIDDEN", status)
      [] status = 404 -> NewErrorWithStatus("NOT_FOUND", status)
      [] status = 422 -> NewErrorWithStatus(ErrCodeUnprocessableEntity, status)
      [] status = 429 -> NewErrorWithStatus(ErrCodeRateLimitExceeded, status)
      [] status = 503 -> NewErrorWithStatus(ErrCodeServiceUnavailable, status)
      [] OTHER -> IF status >= 500
                    THEN NewErrorWithStatus(ErrCodeInternalServerError, status)
                    ELSE NewErrorWithStatus("UNEXPECTED_ERROR", status)

genericErrorForStatus(status) ==
    CASE status = 400 -> NewErrorWithStatus(ErrCodeBadRequest, status)
      [] status = 401 -> NewErrorWithStatus(ErrCodeInternalServerError, status)
      [] status = 403 -> NewErrorWithStatus(ErrCodeInternalServerError, status)
      [] status = 404 -> NewErrorWithStatus(ErrCodeSessionNotFound, status)
      [] status = 422 -> NewErrorWithStatus(ErrCodeUnprocessableEntity, status)
      [] status = 429 -> NewErrorWithStatus(ErrCodeRateLimitExceeded, status)
      [] status = 503 -> NewErrorWithStatus(ErrCodeServiceUnavailable, status)
      [] OTHER -> NewErrorWithStatus(ErrCodeInternalServerError, status)

\* the message of the error genericErrorForStatus builds
genericMessage(status) ==
    CASE status = 400 -> "Invalid request"
      [] status = 401 -> "Authentication failed"
      [] status = 403 -> "Access denied"
      [] status = 404 -> "Resource not found"
      [] status = 422 -> "Request could not be processed"
      [] status = 429 -> "Too many requests"
      [] status = 503 -> "Service temporarily unavailable"
      [] OTHER -> IF status >= 500
                    THEN "Server error occurred"
                    ELSE "Unexpected status: " \o ToString(status)

\* mutant: the message is replaced by a generic public one (an earlier
\* sanitizeError did so)
sanitizeError_PublicMessage(e) ==
    [f \in DOMAIN e |->
        IF f = "Message" THEN "An error occurred processing your request"
        ELSE e[f]]

\* sanitizeError builds a new Error from every field of the server's: Code,
\* Message, Status, RequestID, Details
sanitizeError(e) == [f \in DOMAIN e |-> e[f]]

\* bodyCode is the "code" field of the JSON body, "" when the body does not
\* parse or carries no code
parseErrorResponse(statusCode, bodyCode) ==
    IF bodyCode # ""
        THEN sanitizeError([Code |-> bodyCode, Status |-> statusCode])
        ELSE genericErrorForStatus(statusCode)

\* an Error with all its fields; Details is the set of <<key, value>> pairs
\* of the map (a nil map and an empty one are both {})
FullError(code, message, status, requestID, details) ==
    [Code |-> code, Message |-> message, Status |-> status,
     RequestID |-> requestID, Details |-> details]

\* the Code and Status of an Error, which is all Spec keeps of one
brief(e) == [Code |-> e.Code, Status |-> e.Status]

\* parseErrorResponse on a whole body.  body.json: json.Unmarshal into apiErr
\* succeeds; the other fields are the members it decodes ("" and {} when
\* absent).  parseErrorResponse above is the Code and Status of this
parseErrorResponseBody(statusCode, body) ==
    IF body.json /\ body.code # ""
        THEN sanitizeError(FullError(body.code, body.message, statusCode,
                                     body.request_id, body.details))
        ELSE LET g == genericErrorForStatus(statusCode)
             IN FullError(g.Code, genericMessage(statusCode), g.Status, "", {})

\* an Error written by the server as an error response: json.Marshal of the
\* struct (tags code, message, request_id, details) as the body, the
\* Error's Status as the HTTP status
encodeErrorResponse(e) ==
    [status |-> e.Status,
     body |-> [json |-> TRUE, code |-> e.Code, message |-> e.Message,
               request_id |-> e.RequestID, details |-> e.Details]]

----------------------------------------------------------------------------
(* package glide: what one HTTP exchange can do *)

Statuses == {200, 400, 429, 500, 503}
BodyCodes == {"", ErrCodeCarrierNotEligible, ErrCodeBadGateway}
Bodies == {"b1", "b2"}

\* the ways one performRequest call can go
Exchanges ==
    [kind : {"marshalFail", "newRequestFail", "transportFail", "readFail"},
     status : {0}, code : {""}, body : {NilBody}]
    \cup [kind : {"http"}, status : {s \in Statuses : s >= 400},
          code : BodyCodes, body : {NilBody}]
    \cup [kind : {"http"}, status : {s \in Statuses : s < 400},
          code : {""}, body : Bodies]

\* mutant: a transport failure is reported with a code that is not retried
transportError_NotRetryable == NewError(ErrCodeInternalServerError)

\* `NewError(ErrCodeServiceUnavailable, "Failed to execute request")`
transportError == NewError(ErrCodeServiceUnavailable)

\* performRequest: the (body, err) pair for one exchange
performRequest(x) ==
    CASE x.kind = "marshalFail" ->
            [body |-> NilBody, err |-> NewError(ErrCodeValidationError)]
      [] x.kind = "newRequestFail" ->
            [body |-> NilBody, err |-> NewError(ErrCodeInternalServerError)]
      [] x.kind = "transportFail" ->
            [body |-> NilBody, err |-> transportError]
      [] x.kind = "readFail" ->
            [body |-> NilBody, err |-> NewError(ErrCodeInternalServerError)]
      [] OTHER ->
            IF x.status >= 400
                THEN [body |-> NilBody,
                      err |-> parseErrorResponse(x.status, x.code)]
                ELSE [body |-> x.body, err |-> NilErr]

----------------------------------------------------------------------------
(* package glide: Client.doRequest *)

RetryCounts == -1 .. MaxRetry
RetryDelays == {0, 2}

Configs ==
    [RetryCount : RetryCounts, RetryDelay : RetryDelays,
     RateLimitEnabled : BOOLEAN]

NoRet == [body |-> "<none>", err |-> NilErr]

\* mutants of the loop condition: one attempt too many, one too few
loopContinues_OneMore(a, retryCount) == a <= retryCount + 1

loopContinues_OneFewer(a, retryCount) == a < retryCount

\* the loop condition `attempt <= c.config.RetryCount`
loopContinues(a, retryCount) == a <= retryCount

\* mutant: the retryability check is missing
stopsRetrying_Never(e) == FALSE

\* `if !glideErr.IsRetryable() { return nil, err }`
stopsRetrying(e) == ~IsRetryable(e)

\* mutant: lastErr is set by the first failure only
nextLastErr_KeepsFirst(old, e) == IF old = NilErr THEN e ELSE old

\* `lastErr = err`
nextLastErr(old, e) == e

\* mutant: a failed rate-limiter wait is reported as a cancelled request
rateLimitExceeded_AsCancelled == NewError(ErrCodeInternalServerError)

\* `NewError(ErrCodeRateLimitExceeded, "Client-side rate limit exceeded")`
rateLimitExceeded == NewError(ErrCodeRateLimitExceeded)

\* `NewError(ErrCodeInternalServerError, "Request cancelled")`
requestCancelled == NewError(ErrCodeInternalServerError)

\* mutant: every retry waits the same RetryDelay
backoffDelay_Constant(retryDelay, a) == retryDelay

\* the delay of the backoff before attempt a: RetryDelay * time.Duration(a)
backoffDelay(retryDelay, a) == retryDelay * a

\* where the for loop goes when its condition is evaluated with attempt = a
loopHead(a) ==
    IF loopContinues(a, config.RetryCount)
        THEN IF a > 0 THEN "backoff" ELSE "perform"
        ELSE "exhausted"

\* no doRequest call has been made
TIdle ==
    /\ tpc = "idle"
    /\ attempt = 0
    /\ lastErr = NilErr
    /\ hist = <<>>
    /\ waits = <<>>
    /\ tokens = 0
    /\ ctxDone = FALSE
    /\ ret = NoRet

\* a client built by New with any retry and rate-limit options
TInit ==
    /\ config \in Configs
    /\ TIdle

\* a caller invokes doRequest with a fresh context
DoRequestCall ==
    /\ tpc \in {"idle", "done"}
    /\ tpc' = "ratelimit"
    /\ attempt' = 0
    /\ lastErr' = NilErr
    /\ hist' = <<>>
    /\ waits' = <<>>
    /\ tokens' = 0
    /\ ctxDone' = FALSE
    /\ ret' = NoRet
    /\ UNCHANGED config
    /\ UNCHANGED avars
    /\ UNCHANGED pvars
    /\ UNCHANGED cvars

\* the caller cancels the context (or its deadline passes) during the call
CancelContext ==
    /\ tpc \in {"ratelimit", "backoff", "perform"}
    /\ ~ctxDone
    /\ ctxDone' = TRUE
    /\ UNCHANGED <<config, tpc, attempt, lastErr, hist, waits, tokens, ret>>
    /\ UNCHANGED avars
    /\ UNCHANGED pvars
    /\ UNCHANGED cvars

\* mutant: the wait returns without having taken a token
rateLimiterWait_TakesNone(enabled, t) == t

\* the tokens the call has taken once `c.rateLimiter.Wait(ctx)` has returned
\* nil: one more, when rate limiting is on
rateLimiterWait(enabled, t) == IF enabled THEN t + 1 ELSE t

\* `if c.config.RateLimitEnabled && c.rateLimiter != nil { Wait(ctx) }`;
\* Wait fails when the context is done or its deadline is too near
RateLimitWait ==
    /\ tpc = "ratelimit"
    /\ \E granted \in BOOLEAN :
        /\ ~config.RateLimitEnabled => granted
        /\ (config.RateLimitEnabled /\ ctxDone) => ~granted
        /\ IF granted
             THEN /\ tokens' = rateLimiterWait(config.RateLimitEnabled, tokens)
                  /\ tpc' = loopHead(0)
                  /\ ret' = ret
             ELSE /\ tokens' = tokens
                  /\ tpc' = "done"
                  /\ ret' = [body |-> NilBody, err |-> rateLimitExceeded]
    /\ UNCHANGED <<config, attempt, lastErr, hist, waits, ctxDone>>
    /\ UNCHANGED avars
    /\ UNCHANGED pvars
    /\ UNCHANGED cvars

\* the select of the retry delay: the timer fires, or ctx.Done() is ready
BackoffWait ==
    /\ tpc = "backoff"
    /\ LET d == backoffDelay(config.RetryDelay, attempt) IN
       \E timerFirst \in BOOLEAN :
        /\ ~ctxDone => timerFirst
        /\ (ctxDone /\ d > 0) => ~timerFirst
        /\ IF timerFirst
             THEN /\ waits' = Append(waits, d)
                  /\ tpc' = "perform"
                  /\ ret' = ret
             ELSE /\ waits' = waits
                  /\ tpc' = "done"
                  /\ ret' = [body |-> NilBody, err |-> requestCancelled]
    /\ UNCHANGED <<config, attempt, lastErr, hist, tokens, ctxDone>>
    /\ UNCHANGED avars
    /\ UNCHANGED pvars
    /\ UNCHANGED cvars

\* one attempt: performRequest, then the retry decision of the loop body
PerformAttempt ==
    /\ tpc = "perform"
    /\ \E x \in Exchanges :
        /\ ctxDone => x.kind \in {"marshalFail", "newRequestFail", "transportFail"}
        /\ LET out == performRequest(x) IN
            /\ hist' = Append(hist, [body |-> out.body, err |-> out.err,
                                      kind |-> x.kind])
            /\ IF out.err = NilErr
                 THEN /\ ret' = [body |-> out.body, err |-> NilErr]
                      /\ tpc' = "done"
                      /\ UNCHANGED <<attempt, lastErr>>
                 ELSE IF stopsRetrying(out.err)
                 THEN /\ ret' = [body |-> NilBody, err |-> out.err]
                      /\ tpc' = "done"
                      /\ UNCHANGED <<attempt, lastErr>>
                 ELSE /\ lastErr' = nextLastErr(lastErr, out.err)
                      /\ attempt' = attempt + 1
                      /\ tpc' = loopHead(attempt + 1)
                      /\ ret' = ret
    /\ UNCHANGED <<config, waits, tokens, ctxDone>>
    /\ UNCHANGED avars
    /\ UNCHANGED pvars
    /\ UNCHANGED cvars

\* after the loop: lastErr.Error() is logged and lastErr is returned; calling
\* Error() on a nil error panics
RetriesExhausted ==
    /\ tpc = "exhausted"
    /\ IF lastErr = NilErr
         THEN /\ tpc' = "panic"
              /\ ret' = ret
         ELSE /\ tpc' = "done"
              /\ ret' = [body |-> NilBody, err |-> lastErr]
    /\ UNCHANGED <<config, attempt, lastErr, hist, waits, tokens, ctxDone>>
    /\ UNCHANGED avars
    /\ UNCHANGED pvars
    /\ UNCHANGED cvars

TNext ==
    \/ DoRequestCall
    \/ CancelContext
    \/ RateLimitWait
    \/ BackoffWait
    \/ PerformAttempt
    \/ RetriesExhausted

----------------------------------------------------------------------------
(* package ogi: Session, SessionType, AuthConfig *)

Ciba == 0
ThreeLeggedOAuth2 == 1

\* `case <-time.After(2 * time.Minute)`, in seconds
PollTimeout == 120

\* a nil *Session
NoSession == [AccessToken |-> "<nil>", SessionType |-> -1]

Tokens == {"t1", "t2"}

\* what json.Unmarshal leaves in Session.SessionType: the struct field has no
\* json tag, so a "SessionType" member of the body is decoded into it; a body
\* without one leaves the zero value
DecodedTypes == {0, 1}

Providers == {Ciba, ThreeLeggedOAuth2, 2}

\* a nil *BaseAuthConfig
NilBase == [Scopes |-> <<>>, LoginHint |-> "<nil>"]

BaseAuthConfigs ==
    {NilBase} \cup [Scopes : {<<"openid", "sim-swap">>},
                    LoginHint : {"tel:+1"}]

AuthConfigs == [Provider : Providers, Base : BaseAuthConfigs]

\* the poll intervals (seconds) an authorization response may carry
Intervals == {-1, 0, 1, 40, 60, 121}

\* how long one token-endpoint exchange may take (seconds)
Latencies == {0, 45}

\* no LocationBody: the call is not a VerifyLocation
NoLocation == [DeviceIDType |-> "<none>", DeviceID |-> << >>]

\* the record kept of an ogi call; sentHint is the login_hint parameter of the
\* authorization request the call sent
NoCall ==
    [op |-> "none", cfgIn |-> [Provider |-> Ciba, Base |-> NilBase],
     cfgOut |-> [Provider |-> Ciba, Base |-> NilBase],
     pre |-> NoSession, resSession |-> NoSession, redirectUrl |-> "",
     err |-> "", authCalls |-> 0, tokenCalls |-> 0, urlBuilt |-> FALSE,
     polled |-> <<>>, feature |-> "", authReqId |-> 0, polledIds |-> {},
     sentHint |-> "<none>", location |-> NoLocation]

\* cancelledAt: the number of token-endpoint calls made when the caller of
\* Authenticate gave up (cancelled its own context, or its deadline passed),
\* -1 while it has not
\* answered: the authorization request was answered, with `interval`
NoPoll ==
    [interval |-> 0, now |-> 0, lastRecv |-> 0, buffered |-> FALSE,
     approveAt |-> 0, cancelledAt |-> -1, answered |-> FALSE]

NoSummary ==
    [cibaOk |-> FALSE, token |-> "", featureFailed |-> FALSE, issued |-> 0,
     abandoned |-> FALSE, base |-> NilBase, exchangeOk |-> FALSE]

\* what is remembered of the calls before the current one (c is the call
\* that just ended, p what was remembered before it): whether c was an
\* Authenticate that ran the backchannel flow to a session, that session's
\* access token, whether c was a feature call whose downstream request
\* failed, how many auth_req_ids the authorization endpoint has issued (it
\* numbers them 1, 2, ...), whether c was given one and ended in an error,
\* the BaseAuthConfig c was called with when it ran the backchannel flow to a
\* session, and whether c was an ExchangeCodeForSession that returned a
\* session
Summary(c, p) ==
    [cibaOk |-> c.op = "authenticate" /\ c.cfgIn.Provider = Ciba
                  /\ c.err = "" /\ Len(c.polled) >= 1,
     token |-> IF c.op = "authenticate" /\ c.cfgIn.Provider = Ciba
                    /\ c.err = "" /\ Len(c.polled) >= 1
                 THEN c.resSession.AccessToken ELSE "",
     featureFailed |-> c.feature = "failed",
     issued |-> IF c.authReqId # 0 THEN c.authReqId ELSE p.issued,
     abandoned |-> c.authReqId # 0 /\ c.err # "",
     base |-> IF c.op = "authenticate" /\ c.cfgIn.Provider = Ciba
                   /\ c.err = "" /\ Len(c.polled) >= 1
                THEN c.cfgIn.Base ELSE NilBase,
     exchangeOk |-> c.op = "exchange" /\ c.err = ""]

\* mutant: the cached session is never looked at
reusesSession_Never(s, provider) == FALSE

\* mutant: the comparison is strict
reusesSession_Strict(s, provider) ==
    s # NoSession /\ s.SessionType > provider

\* `c.session != nil && c.session.SessionType >= authConfig.Provider`
reusesSession(s, provider) ==
    s # NoSession /\ s.SessionType >= provider

\* `if authConfig.BaseAuthConfig == nil { ... Scopes: []string{"openid"} }`
defaultBase(cfg) ==
    IF cfg.Base = NilBase
        THEN [cfg EXCEPT !.Base = [Scopes |-> <<"openid">>, LoginHint |-> ""]]
        ELSE cfg

\* mutant: the polled session is returned as decoded
getCibaSession_Untagged(s) == s

\* getCibaSession: `session.SessionType = Ciba` on the polled session
getCibaSession(s) == [s EXCEPT !.SessionType = Ciba]

\* mutant: the new session is not cached
cacheCibaSession_Forgets(old, s) == old

\* Authenticate, case Ciba: `c.session = session`
cacheCibaSession(old, s) == s

\* mutant: the cached session is edited in place, only its token replaced
cacheExchangedSession_EditsInPlace(old, s) ==
    IF old = NoSession THEN s ELSE [old EXCEPT !.AccessToken = s.AccessToken]

\* ExchangeCodeForSession: `c.session = session`, the session as decoded
cacheExchangedSession(old, s) == s

\* mutant: the redirect response also carries the cached session
redirectResponse_WithSession(c, url) ==
    [c EXCEPT !.redirectUrl = url, !.urlBuilt = TRUE, !.resSession = c.pre]

\* Authenticate, case ThreeLeggedOAuth2:
\* `return &AuthenticationResponse{RedirectUrl: redirectUrl}, nil`
redirectResponse(c, url) ==
    [c EXCEPT !.redirectUrl = url, !.urlBuilt = TRUE]

AInit ==
    /\ session = NoSession
    /\ apc = "idle"
    /\ call = NoCall
    /\ prev = NoSummary
    /\ poll = NoPoll

\* Authenticate(&cfg) up to its first network request, called by the user
\* (location = NoLocation) or from VerifyLocation: the reuse check, the
\* default BaseAuthConfig, and the switch on the provider
authenticateCall(cfg, location) ==
    /\ apc \in {"idle", "done"}
    /\  LET c0 == [NoCall EXCEPT !.op = "authenticate", !.cfgIn = cfg,
                                 !.cfgOut = cfg, !.pre = session,
                                 !.location = location]
            c1 == [c0 EXCEPT !.cfgOut = defaultBase(cfg)]
        IN
        /\ prev' = Summary(call, prev)
        /\ IF reusesSession(session, cfg.Provider)
             THEN /\ call' = [c0 EXCEPT !.resSession = session]
                  /\ apc' = "done"
             ELSE IF cfg.Provider = Ciba
             THEN /\ call' = c1
                  /\ apc' = "authorize"
             ELSE IF cfg.Provider = ThreeLeggedOAuth2
             THEN \E urlOk \in BOOLEAN :
                  /\ call' = IF urlOk
                               THEN redirectResponse(c1, "url")
                               ELSE [c1 EXCEPT !.err = "redirect url"]
                  /\ apc' = "done"
             ELSE /\ call' = [c1 EXCEPT !.err = "invalid provider"]
                  /\ apc' = "done"
    /\ poll' = NoPoll
    /\ UNCHANGED session
    /\ UNCHANGED tvars
    /\ UNCHANGED pvars
    /\ UNCHANGED cvars

\* GlideClient.Authenticate called by the user of the client
Authenticate == \E cfg \in AuthConfigs : authenticateCall(cfg, NoLocation)

\* mutant: an interval of one second is refused as well
intervalInvalid_OffByOne(i) == i < 2

\* pollCibaToken: `if interval < 1 { return nil, fmt.Errorf("invalid interval") }`
intervalInvalid(i) == i < 1

\* getCibaAuthLoginHint, then the entry of pollCibaToken: the interval check
\* and time.NewTicker
AuthorizeRequest ==
    /\ apc = "authorize"
    /\ \E how \in {"readEnv", "newRequest", "transport", "status", "parse", "ok"} :
        LET sent == how \in {"transport", "status", "parse", "ok"}
            c1 == [call EXCEPT !.authCalls = IF sent THEN @ + 1 ELSE @,
                               !.sentHint = IF sent
                                              THEN call.cfgOut.Base.LoginHint
                                              ELSE @]
        IN
        IF how # "ok"
          THEN /\ call' = [c1 EXCEPT !.err = "initiation: " \o how]
               /\ apc' = "done"
               /\ poll' = NoPoll
          ELSE \E i \in Intervals, k \in 0 .. MaxPolls :
               LET c2 == [c1 EXCEPT !.authReqId = prev.issued + 1] IN
               /\ prev.issued < MaxAuthRequests
               /\ IF intervalInvalid(i)
                 THEN /\ call' = [c2 EXCEPT !.err = "invalid interval"]
                      /\ apc' = "done"
                      /\ poll' = [NoPoll EXCEPT !.interval = i,
                                                !.answered = TRUE]
                 ELSE /\ call' = c2
                      /\ apc' = "polling"
                      /\ poll' = [interval |-> i, now |-> 0, lastRecv |-> 0,
                                  buffered |-> FALSE, approveAt |-> k,
                                  cancelledAt |-> -1, answered |-> TRUE]
    /\ UNCHANGED <<session, prev>>
    /\ UNCHANGED tvars
    /\ UNCHANGED pvars
    /\ UNCHANGED cvars

\* the instant of the ticker's next tick after time t
nextTick(t, interval) == ((t \div interval) + 1) * interval

\* the select of pollCibaToken is entered at poll.now: the time.After timer
\* it creates fires at poll.now + PollTimeout
timerAt == poll.now + PollTimeout

\* the ticker case can be taken: a tick is buffered, or the next tick is not
\* later than the timer
tickerCanWin ==
    poll.buffered \/ nextTick(poll.now, poll.interval) <= timerAt

\* the timer case can be taken: no tick is buffered and the next tick is
\* later than the timer (the ticker was started before the timer, so of a
\* tick and a timer due the same second the tick is sent first)
timerCanWin ==
    ~poll.buffered /\ nextTick(poll.now, poll.interval) > timerAt

\* the token endpoint's answers to poll number n when it does not fail: an
\* access token from poll approveAt on, none before ("" is no access token)
endpointTokens(n) ==
    IF poll.approveAt # 0 /\ n >= poll.approveAt THEN Tokens ELSE {""}

\* mutant: any answer of the token endpoint ends the polling
pollCompleted_Always(tok) == TRUE

\* `if session.AccessToken != "" { return session, nil }`
pollCompleted(tok) == tok # ""

\* mutant: the error of fetchCibaToken is not looked at
pollFailed_Ignored(how) == FALSE

\* `if err != nil { return nil, err }` after fetchCibaToken
pollFailed(how) == how # "ok"

\* mutant: a pending auth_req_id of an earlier call is resumed
pollAuthReqId_Resumes(own, earlier) == IF earlier > 0 THEN earlier ELSE own

\* getCibaSession: `c.pollCibaToken(authReqId, interval)` with the authReqId
\* that getCibaAuthLoginHint has just returned (a local variable; the client
\* keeps none)
pollAuthReqId(own, earlier) == own

\* `case <-ticker.C`: fetchCibaToken, then the three outcomes of the poll
PollTick ==
    /\ apc = "polling"
    /\ tickerCanWin
    /\ Len(call.polled) < MaxPolls
    /\ \E how \in {"readEnv", "newRequest", "transport", "status", "parse", "ok"},
          d \in Latencies, ty \in DecodedTypes :
        \E tok \in endpointTokens(Len(call.polled) + 1) :
        LET recv == IF poll.buffered THEN poll.now
                    ELSE nextTick(poll.now, poll.interval)
            sent == how \in {"transport", "status", "parse", "ok"}
            end == recv + (IF sent THEN d ELSE 0)
            id == pollAuthReqId(call.authReqId, prev.issued)
            c1 == [call EXCEPT !.tokenCalls = IF sent THEN @ + 1 ELSE @,
                               !.polledIds = IF sent THEN @ \cup {id} ELSE @,
                               !.polled = Append(@, IF how = "ok" THEN tok
                                                    ELSE "poll: " \o how)]
            p1 == [poll EXCEPT !.now = end,
                               !.lastRecv = recv,
                               !.buffered = (end \div poll.interval)
                                            > (recv \div poll.interval)]
        IN
        IF pollFailed(how)
          THEN /\ call' = [c1 EXCEPT !.err = "poll: " \o how]
               /\ apc' = "done"
               /\ poll' = p1
               /\ session' = session
          ELSE IF pollCompleted(tok)
          THEN LET s == getCibaSession([AccessToken |-> tok,
                                        SessionType |-> ty])
               IN /\ session' = cacheCibaSession(session, s)
                  /\ call' = [c1 EXCEPT !.resSession = s]
                  /\ apc' = "done"
                  /\ poll' = p1
          ELSE /\ call' = c1
               /\ apc' = "polling"
               /\ poll' = p1
               /\ session' = session
    /\ UNCHANGED prev
    /\ UNCHANGED tvars
    /\ UNCHANGED pvars
    /\ UNCHANGED cvars

\* the caller of Authenticate cancels, or its deadline passes, while
\* pollCibaToken is in its loop.  Authenticate takes no context and the
\* select has no case for one, so nothing of the call changes
CallerCancels ==
    /\ apc = "polling"
    /\ poll.cancelledAt = -1
    /\ poll' = [poll EXCEPT !.cancelledAt = call.tokenCalls]
    /\ UNCHANGED <<session, apc, call, prev>>
    /\ UNCHANGED tvars
    /\ UNCHANGED pvars
    /\ UNCHANGED cvars

\* `case <-time.After(2 * time.Minute)`
PollTimedOut ==
    /\ apc = "polling"
    /\ timerCanWin
    /\ call' = [call EXCEPT !.err = "ciba token polling timeout"]
    /\ poll' = [poll EXCEPT !.now = timerAt]
    /\ apc' = "done"
    /\ UNCHANGED <<session, prev>>
    /\ UNCHANGED tvars
    /\ UNCHANGED pvars
    /\ UNCHANGED cvars

ExchangeCodeForSession ==
    /\ apc \in {"idle", "done"}
    /\ prev' = Summary(call, prev)
    /\ \E how \in {"readEnv", "newRequest", "transport", "status", "parse", "ok"} :
        LET sent == how \in {"transport", "status", "parse", "ok"}
            c1 == [NoCall EXCEPT !.op = "exchange", !.pre = session,
                                 !.tokenCalls = IF sent THEN 1 ELSE 0]
        IN
        IF how # "ok"
          THEN /\ call' = [c1 EXCEPT !.err = "exchange: " \o how]
               /\ session' = session
          ELSE \E t \in Tokens \cup {""}, ty \in DecodedTypes :
               LET s == [AccessToken |-> t, SessionType |-> ty] IN
               /\ session' = cacheExchangedSession(session, s)
               /\ call' = [c1 EXCEPT !.resSession = s]
    /\ apc' = "done"
    /\ poll' = NoPoll
    /\ UNCHANGED tvars
    /\ UNCHANGED pvars
    /\ UNCHANGED cvars

\* the rest of a feature call (RetrieveDate, CheckSimSwap, VerifyByNumber,
\* VerifyByNumberHash, GetPhoneNumber) after its Authenticate has returned
\* without an error: the number-verification calls give up when they were
\* handed a redirect URL, otherwise the downstream request is sent with the
\* session's access token as bearer token; c.session is not assigned
FeatureRequest ==
    /\ apc = "done"
    /\ call.op = "authenticate"
    /\ call.err = ""
    /\ call.feature = ""
    /\ call.location = NoLocation
    /\ call.cfgIn.Base # NilBase
    /\ IF call.redirectUrl # ""
         THEN call' = [call EXCEPT !.feature = "session required"]
         ELSE \E out \in {"ok", "failed"} :
              call' = [call EXCEPT !.feature = out]
    /\ UNCHANGED <<session, apc, prev, poll>>
    /\ UNCHANGED tvars
    /\ UNCHANGED pvars
    /\ UNCHANGED cvars

PHONE_NUMBER == "phoneNumber"
IPV4 == "ipv4Address"
IPV6 == "ipv6Address"
NAI == "networkAccessIdentifier"

\* a device id is a sequence of characters
DeviceIDs == {<<"1", " ", "5">>}

\* the LocationBody values VerifyLocation is called with ("" is an unset
\* DeviceIDType)
Locations == [DeviceIDType : {"", PHONE_NUMBER, IPV4, NAI}, DeviceID : DeviceIDs]

\* strings.ReplaceAll(phoneNumber, " ", "")
RECURSIVE removeSpaces(_)
removeSpaces(s) ==
    IF s = << >> THEN << >>
    ELSE IF Head(s) = " " THEN removeSpaces(Tail(s))
    ELSE <<Head(s)>> \o removeSpaces(Tail(s))

\* the characters of s as one string
RECURSIVE join(_)
join(s) == IF s = << >> THEN "" ELSE Head(s) \o join(Tail(s))

FormatPhoneNumber(phoneNumber) ==
    LET p == removeSpaces(phoneNumber) IN
    IF p # << >> /\ Head(p) = "+" THEN p ELSE <<"+">> \o p

\* `if location.DeviceIDType == "" { location.DeviceIDType = PHONE_NUMBER }`
deviceIDType(location) ==
    IF location.DeviceIDType = "" THEN PHONE_NUMBER ELSE location.DeviceIDType

\* the LoginHint of baseAuthConfig after the if / else if on DeviceIDType
locationLoginHint(location, old) ==
    IF deviceIDType(location) = PHONE_NUMBER
        THEN "tel:" \o join(FormatPhoneNumber(location.DeviceID))
    ELSE IF deviceIDType(location) \in {IPV4, IPV6}
        THEN "ipport:" \o join(location.DeviceID)
    ELSE old

\* the AuthConfig VerifyLocation builds before it calls Authenticate
locationAuthConfig ==
    [Provider |-> Ciba,
     Base |-> [Scopes |-> <<"openid", "device-location">>, LoginHint |-> ""]]

\* VerifyLocation up to the first network request of its Authenticate call;
\* when ReadEnv fails it returns before that call
VerifyLocation ==
    \E location \in Locations, envOk \in BOOLEAN :
        IF envOk
          THEN authenticateCall(locationAuthConfig, location)
          ELSE /\ apc \in {"idle", "done"}
               /\ prev' = Summary(call, prev)
               /\ call' = [NoCall EXCEPT !.op = "verifyLocation",
                                         !.pre = session,
                                         !.location = location,
                                         !.err = "readEnv"]
               /\ apc' = "done"
               /\ poll' = NoPoll
               /\ UNCHANGED session
               /\ UNCHANGED tvars
               /\ UNCHANGED pvars
               /\ UNCHANGED cvars

\* the rest of VerifyLocation after its Authenticate has returned without an
\* error: the defaults, the LoginHint written to baseAuthConfig, and the
\* device-location request with the session's access token
VerifyLocationRequest ==
    /\ apc = "done"
    /\ call.op = "authenticate"
    /\ call.location # NoLocation
    /\ call.err = ""
    /\ call.feature = ""
    /\ \E out \in {"ok", "failed"} :
        call' = [call EXCEPT
                   !.cfgOut.Base.LoginHint = locationLoginHint(call.location, @),
                   !.feature = out]
    /\ UNCHANGED <<session, apc, prev, poll>>
    /\ UNCHANGED tvars
    /\ UNCHANGED pvars
    /\ UNCHANGED cvars

LNext ==
    \/ VerifyLocation
    \/ AuthorizeRequest
    \/ PollTick
    \/ CallerCancels
    \/ PollTimedOut
    \/ VerifyLocationRequest

ANext ==
    \/ Authenticate
    \/ AuthorizeRequest
    \/ PollTick
    \/ CallerCancels
    \/ PollTimedOut
    \/ ExchangeCodeForSession
    \/ FeatureRequest

----------------------------------------------------------------------------
(* package ogi: goroutines calling Authenticate(Ciba) on one GlideClient *)

CallerIds == 1 .. NumCallers

NoCaller == [pc |-> "idle", ranFlow |-> FALSE, res |-> NoSession, err |-> ""]

CIdle == callers = [c \in CallerIds |-> NoCaller]

\* the value a goroutine's read of c.session may return.  GlideClient has no
\* lock and the field is a plain pointer: the read races with the writes of
\* the other goroutines and returns the pointer stored now or, nothing
\* ordering it after them, the nil the client was built with
racyRead(s) == {s, NoSession}

\* a goroutine enters Authenticate(Ciba): the check of c.session; on a miss
\* it goes on to getCibaSession
ConcAuthenticate ==
    /\ \E c \in CallerIds, seen \in racyRead(session) :
        /\ callers[c].pc = "idle"
        /\ callers' =
             [callers EXCEPT ![c] =
                 IF reusesSession(seen, Ciba)
                   THEN [pc |-> "done", ranFlow |-> FALSE, res |-> seen,
                         err |-> ""]
                   ELSE [pc |-> "flow", ranFlow |-> TRUE, res |-> NoSession,
                         err |-> ""]]
    /\ UNCHANGED avars
    /\ UNCHANGED tvars
    /\ UNCHANGED pvars

\* the goroutine's getCibaSession returns (authorization request and polling,
\* as in AuthorizeRequest and PollTick): with an error, or with a session
\* that is stored in c.session
ConcFlowReturns ==
    /\ \E c \in CallerIds, ok \in BOOLEAN, tok \in Tokens, ty \in DecodedTypes :
        /\ callers[c].pc = "flow"
        /\ IF ok
             THEN LET s == getCibaSession([AccessToken |-> tok,
                                           SessionType |-> ty])
                  IN /\ session' = cacheCibaSession(session, s)
                     /\ callers' = [callers EXCEPT ![c].pc = "done",
                                                   ![c].res = s]
             ELSE /\ session' = session
                  /\ callers' = [callers EXCEPT ![c].pc = "done",
                                                ![c].err = "flow failed"]
    /\ UNCHANGED <<apc, call, prev, poll>>
    /\ UNCHANGED tvars
    /\ UNCHANGED pvars

CNext ==
    \/ ConcAuthenticate
    \/ ConcFlowReturns

----------------------------------------------------------------------------
(* package glide: request validation (the functions magic_auth.go calls) *)

ErrCodeInvalidParameters == "INVALID_PARAMETERS"
ErrCodeMissingParameters == "MISSING_PARAMETERS"
ErrCodeInvalidPhoneNumber == "INVALID_PHONE_NUMBER"
ErrCodeInvalidMCCMNC == "INVALID_MCC_MNC"
ErrCodeInvalidCredentialFormat == "INVALID_CREDENTIAL_FORMAT"

UseCaseGetPhoneNumber == "GetPhoneNumber"
UseCaseVerifyPhoneNumber == "VerifyPhoneNumber"

\* a Go string is a sequence of characters here, "" is << >>
Digits == {"0", "1", "2", "3", "4", "5", "6", "7", "8", "9"}

allDigits(s, from) == \A i \in from .. Len(s) : s[i] \in Digits

\* the tests of ValidatePhoneNumber in their order: "" is accepted, then the
\* '+' prefix, the lengths 8 and 16, `^\+\d+$` and `^\+[1-9]\d{1,14}$`; every
\* failure is reported with the code given
phoneNumberError(phoneNumber, code) ==
    IF phoneNumber = << >> THEN NilErr
    ELSE IF phoneNumber[1] # "+" THEN NewError(code)
    ELSE IF Len(phoneNumber) < 8 THEN NewError(code)
    ELSE IF Len(phoneNumber) > 16 THEN NewError(code)
    ELSE IF ~allDigits(phoneNumber, 2) THEN NewError(code)
    ELSE IF phoneNumber[2] = "0" THEN NewError(code)
    ELSE NilErr

\* mutant: the other copy of the function, which reports VALIDATION_ERROR
ValidatePhoneNumber_ValidationError(phoneNumber) ==
    phoneNumberError(phoneNumber, ErrCodeValidationError)

ValidatePhoneNumber(phoneNumber) ==
    phoneNumberError(phoneNumber, ErrCodeInvalidPhoneNumber)

\* nil pointers and the nil map, as values of the type pointed to
NilPLMN == [MCC |-> <<"<nil>">>, MNC |-> <<"<nil>">>]
NilConsentData ==
    [ConsentText |-> "<nil>", PolicyLink |-> << >>, PolicyText |-> "<nil>"]
NilSessionInfo == [SessionKey |-> "<nil>"]

\* `^\d{3}$` on MCC, then `^\d{2,3}$` on MNC; a failure is reported with the
\* code given
plmnError(plmn, code) ==
    IF plmn = NilPLMN THEN NilErr
    ELSE IF ~(Len(plmn.MCC) = 3 /\ allDigits(plmn.MCC, 1))
        THEN NewError(code)
    ELSE IF ~(Len(plmn.MNC) \in {2, 3} /\ allDigits(plmn.MNC, 1))
        THEN NewError(code)
    ELSE NilErr

\* mutant: the other copy of the function, which reports VALIDATION_ERROR
ValidatePLMN_ValidationError(plmn) == plmnError(plmn, ErrCodeValidationError)

ValidatePLMN(plmn) == plmnError(plmn, ErrCodeInvalidMCCMNC)

\* PolicyLink is a sequence whose first element is the scheme prefix
ValidateConsentData(consent) ==
    IF consent = NilConsentData THEN NilErr
    ELSE IF consent.ConsentText = "" THEN NewError(ErrCodeValidationError)
    ELSE IF consent.PolicyLink = << >> THEN NewError(ErrCodeValidationError)
    ELSE IF consent.PolicyText = "" THEN NewError(ErrCodeValidationError)
    ELSE IF consent.PolicyLink[1] \notin {"http://", "https://"}
        THEN NewError(ErrCodeValidationError)
    ELSE NilErr

\* mutant: the other copy of the function, which does not look at the PLMN
\* and reports a missing phone number as INVALID_PARAMETERS
ValidateUseCaseRequirements_NoPLMN(useCase, phoneNumber, plmn) ==
    IF useCase = UseCaseVerifyPhoneNumber /\ phoneNumber = << >>
        THEN NewError(ErrCodeInvalidParameters)
        ELSE NilErr

\* the switch on useCase; the default case returns nil
ValidateUseCaseRequirements(useCase, phoneNumber, plmn) ==
    IF useCase = UseCaseGetPhoneNumber
        THEN IF phoneNumber # << >> THEN NewError(ErrCodeValidationError)
             ELSE IF plmn = NilPLMN THEN NewError(ErrCodeMissingParameters)
             ELSE NilErr
    ELSE IF useCase = UseCaseVerifyPhoneNumber
        THEN IF phoneNumber = << >> THEN NewError(ErrCodeMissingParameters)
             ELSE NilErr
    ELSE NilErr

validatePrepareRequest(req) ==
    IF req.UseCase \notin {UseCaseGetPhoneNumber, UseCaseVerifyPhoneNumber}
        THEN NewError(ErrCodeInvalidParameters)
    ELSE IF ValidateUseCaseRequirements(req.UseCase, req.PhoneNumber,
                                        req.PLMN) # NilErr
        THEN ValidateUseCaseRequirements(req.UseCase, req.PhoneNumber,
                                         req.PLMN)
    ELSE IF ValidatePhoneNumber(req.PhoneNumber) # NilErr
        THEN ValidatePhoneNumber(req.PhoneNumber)
    ELSE IF ValidatePLMN(req.PLMN) # NilErr THEN ValidatePLMN(req.PLMN)
    ELSE ValidateConsentData(req.ConsentData)

\* the length test, the '+' and the digits loop, then the length cap
isValidE164(phoneNumber) ==
    /\ Len(phoneNumber) >= 2
    /\ phoneNumber[1] = "+"
    /\ allDigits(phoneNumber, 2)
    /\ Len(phoneNumber) <= 16

\* a decoded JSON value (interface{}): a string, a number or an object; an
\* object is a set of <<key, value>> pairs
JString(s) == [t |-> "string", s |-> s, n |-> 0, m |-> {}]
JNumber(n) == [t |-> "number", s |-> "", n |-> n, m |-> {}]
JObject(m) == [t |-> "object", s |-> "", n |-> 0, m |-> m]

\* a nil map[string]interface{}
NilCredential == {<<"<nil>", JString("")>>}

\* the two tests at the head of numberVerifyService.Verify
validateNumberVerifyRequest(req) ==
    IF req.PhoneNumber = << >> THEN NewError(ErrCodeInvalidParameters)
    ELSE IF ~isValidE164(req.PhoneNumber)
        THEN NewError(ErrCodeInvalidParameters)
    ELSE NilErr

\* the two tests at the head of VerifyPhoneNumber and of GetPhoneNumber
validateCredentialRequest(req) ==
    IF req.SessionInfo = NilSessionInfo THEN NewError(ErrCodeInvalidParameters)
    ELSE IF req.SessionInfo.SessionKey = ""
        THEN NewError(ErrCodeInvalidParameters)
    ELSE IF req.Credential = NilCredential THEN NewError(ErrCodeInvalidParameters)
    ELSE NilErr

----------------------------------------------------------------------------
(* package glide: functions of an Error, applied to errors of every code *)

\* every code of the const block, and one the SDK does not know (Code is a
\* string the server chooses)
ErrCodes ==
    RetryableCodes \cup OtherErrCodes
    \cup { ErrCodeBadRequest, ErrCodeValidationError, ErrCodeSessionNotFound,
           ErrCodeUnprocessableEntity, ErrCodeCarrierNotEligible,
           ErrCodeInternalServerError, "SOME_FUTURE_CODE" }

\* Error.Status: 0 when the error was built by NewError, else an HTTP status
ErrStatuses == {0, 400, 404, 429, 499, 500, 503, 599, 600}

NoProbe == [fn |-> "none", err |-> NilErr, retryable |-> FALSE]

PIdle == probe = NoProbe

\* e.IsRetryable() for an error of any code and status
ProbeIsRetryable ==
    /\ probe = NoProbe
    /\ \E code \in ErrCodes, status \in ErrStatuses :
        LET e == IF status = 0 THEN NewError(code)
                 ELSE NewErrorWithStatus(code, status)
        IN probe' = [fn |-> "IsRetryable", err |-> e,
                     retryable |-> IsRetryable(e)]
    /\ UNCHANGED tvars
    /\ UNCHANGED avars
    /\ UNCHANGED cvars

\* the statuses performRequest hands to parseErrorResponse (>= 400)
HttpErrorStatuses == {400, 401, 403, 404, 418, 422, 429, 500, 502, 503}

DetailKeys == {"retry_after", "session_id", "use_case", "internal_trace"}

\* the details maps a server may send: any of the keys, each with a value
DetailMaps == {{<<k, "v">> : k \in K} : K \in SUBSET DetailKeys}

\* the bodies an error response may carry
ErrorBodies ==
    [json : BOOLEAN, code : BodyCodes, message : {"", "carrier said no"},
     request_id : {"", "req-1"}, details : DetailMaps]

\* c.parseErrorResponse(statusCode, body) for any error status and body
ProbeParseErrorResponse ==
    /\ probe = NoProbe
    /\ \E status \in HttpErrorStatuses, body \in ErrorBodies :
        LET e == parseErrorResponseBody(status, body)
        IN probe' = [fn |-> "parseErrorResponse", status |-> status,
                     body |-> body, err |-> e, retryable |-> IsRetryable(e)]
    /\ UNCHANGED tvars
    /\ UNCHANGED avars
    /\ UNCHANGED cvars

\* an Error of the server is encoded as an error response and that response
\* is parsed by parseErrorResponse
ProbeRoundTrip ==
    /\ probe = NoProbe
    /\ \E code \in BodyCodes, status \in HttpErrorStatuses,
          message \in {"", "carrier said no"}, rid \in {"", "req-1"},
          details \in DetailMaps :
        LET e == FullError(code, message, status, rid, details)
            r == encodeErrorResponse(e)
            d == parseErrorResponseBody(r.status, r.body)
        IN probe' = [fn |-> "roundTrip", in |-> e, err |-> d,
                     retryable |-> IsRetryable(d)]
    /\ UNCHANGED tvars
    /\ UNCHANGED avars
    /\ UNCHANGED cvars

\* longest run of digits appended to a head
MaxTail == 16

Repeat(c, n) == [i \in 1 .. n |-> c]

PhoneHeads ==
    { << >>, <<"+">>, <<"+", "0">>, <<"+", "1">>, <<"1">>, <<"+", "+">>,
      <<"+", "1", " ">>, <<"+", "1", "-">>, <<"+", "1", "a">> }

\* phone numbers: a head, a run of digits, and possibly a letter at the end
PhoneInputs ==
    {h \o Repeat("5", n) \o t :
        h \in PhoneHeads, n \in 0 .. MaxTail, t \in {<< >>, <<"a">>}}

\* ValidatePhoneNumber(p) for any of the phone numbers
ProbeValidatePhoneNumber ==
    /\ probe = NoProbe
    /\ \E p \in PhoneInputs :
        probe' = [fn |-> "ValidatePhoneNumber", in |-> p,
                  err |-> ValidatePhoneNumber(p)]
    /\ UNCHANGED tvars
    /\ UNCHANGED avars
    /\ UNCHANGED cvars

\* longest MCC or MNC made of one repeated digit
MaxPlmnLen == 4

\* values of MCC and of MNC
PlmnStrings ==
    {Repeat("9", n) : n \in 0 .. MaxPlmnLen}
    \cup { <<"3", "1", "0">>, <<"2", "6">>, <<"3", "1", "a">>, <<"2", "a">>,
           <<"a", "1", "0">>, <<" ", "2", "6">> }

PlmnInputs == [MCC : PlmnStrings, MNC : PlmnStrings]

\* ValidatePLMN(&plmn) for any of the PLMNs
ProbeValidatePLMN ==
    /\ probe = NoProbe
    /\ \E plmn \in PlmnInputs :
        probe' = [fn |-> "ValidatePLMN", in |-> plmn,
                  err |-> ValidatePLMN(plmn)]
    /\ UNCHANGED tvars
    /\ UNCHANGED avars
    /\ UNCHANGED cvars

\* the result has been looked at; the next application can be made
ProbeDone ==
    /\ probe # NoProbe
    /\ probe' = NoProbe
    /\ UNCHANGED tvars
    /\ UNCHANGED avars
    /\ UNCHANGED cvars

PNext ==
    \/ ProbeIsRetryable
    \/ ProbeParseErrorResponse
    \/ ProbeRoundTrip
    \/ ProbeValidatePhoneNumber
    \/ ProbeValidatePLMN
    \/ ProbeDone

----------------------------------------------------------------------------
(* package glide: the credential of the Digital Credentials API *)

\* json.Marshal writes the keys of a map in sorted order
KeyOrder == <<"glide", "n", "other", "vp_token">>

encodeScalar(v) ==
    IF v.t = "string" THEN "\"" \o v.s \o "\"" ELSE ToString(v.n)

RECURSIVE encodeMembers(_, _, _)
encodeMembers(m, i, first) ==
    IF i > Len(KeyOrder) THEN ""
    ELSE IF \E p \in m : p[1] = KeyOrder[i]
        THEN LET p == CHOOSE q \in m : q[1] = KeyOrder[i]
                 val == IF p[2].t = "object"
                            THEN "{" \o encodeMembers(p[2].m, 1, TRUE) \o "}"
                            ELSE encodeScalar(p[2])
             IN (IF first THEN "" ELSE ",") \o "\"" \o p[1] \o "\":" \o val
                \o encodeMembers(m, i + 1, FALSE)
        ELSE encodeMembers(m, i + 1, first)

\* json.Marshal of a value
jsonMarshal(v) ==
    IF v.t = "object" THEN "{" \o encodeMembers(v.m, 1, TRUE) \o "}"
    ELSE encodeScalar(v)

hasKey(m, k) == \E p \in m : p[1] = k

stringValues(m) == {p[2].s : p \in {q \in m : q[2].t = "string"}}

\* the switch on the type of Credential["vp_token"]: the strings that
\* ts43dcString can hold after it (a map is ranged over in any order and the
\* first string value is taken)
vpTokenStrings(credential) ==
    IF ~hasKey(credential, "vp_token") THEN {""}
    ELSE LET vt == (CHOOSE p \in credential : p[1] = "vp_token")[2] IN
         IF vt.t = "string" THEN {vt.s}
         ELSE IF vt.t = "object"
             THEN IF stringValues(vt.m) = {} THEN {""} ELSE stringValues(vt.m)
         ELSE {jsonMarshal(vt)}

\* `if ts43dcString == "" { json.Marshal(req.Credential) }`
ts43dcFallback(s, credential) ==
    IF s = "" THEN jsonMarshal(JObject(credential)) ELSE s

\* the values of "ts43_dc" in the request that is sent
ts43dcStrings(credential) ==
    {ts43dcFallback(s, credential) : s \in vpTokenStrings(credential)}

----------------------------------------------------------------------------
(* package glide: the services, in front of Client.doRequest *)

PhoneNumbers ==
    { << >>,
      <<"+", "1", "4", "1", "5", "5", "5", "5">>,
      <<"1", "4", "1", "5", "5", "5", "5", "5">>,
      <<"+", "0", "4", "1", "5", "5", "5", "5">>,
      <<"+", "1">>,
      <<"+", "1", "4", "a", "5", "5", "5", "5">> }

PLMNs ==
    { NilPLMN,
      [MCC |-> <<"3", "1", "0">>, MNC |-> <<"2", "6", "0">>],
      [MCC |-> <<"3", "1">>, MNC |-> <<"2", "6", "0">>],
      [MCC |-> <<"3", "1", "0">>, MNC |-> <<"2">>] }

ConsentDatas ==
    { NilConsentData,
      [ConsentText |-> "text", PolicyLink |-> <<"https://", "glide/policy">>,
       PolicyText |-> "policy"],
      [ConsentText |-> "", PolicyLink |-> <<"https://", "glide/policy">>,
       PolicyText |-> "policy"],
      [ConsentText |-> "text", PolicyLink |-> <<"ftp://", "glide/policy">>,
       PolicyText |-> "policy"] }

PrepareRequests ==
    [UseCase : {UseCaseGetPhoneNumber, UseCaseVerifyPhoneNumber, "Other"},
     PhoneNumber : PhoneNumbers, PLMN : PLMNs, ConsentData : ConsentDatas]

NumberVerifyRequests == [PhoneNumber : PhoneNumbers, Code : {"", "1234"}]

SessionInfos == {NilSessionInfo, [SessionKey |-> ""], [SessionKey |-> "sk"]}

VpTokens ==
    { JString("jwt"), JString(""), JObject({}),
      JObject({<<"n", JNumber(1)>>}),
      JObject({<<"glide", JString("jwt")>>}),
      JObject({<<"glide", JString("jwt")>>, <<"other", JString("jwt2")>>}),
      JObject({<<"n", JNumber(1)>>, <<"glide", JString("jwt")>>}),
      JNumber(7) }

Credentials ==
    {NilCredential} \cup {{}, {<<"other", JString("x")>>}}
    \cup {{<<"vp_token", v>>} : v \in VpTokens}

CredentialRequests == [SessionInfo : SessionInfos, Credential : Credentials]

\* generateNonce draws the nonce at random
Nonces == {"nonce1", "nonce2"}

\* doRequest was not called
NoPayload == [none |-> TRUE]

\* apiReq of Prepare; a key that is set only under an `if` holds the empty
\* (or nil) value when it is left out
prepareApiReq(req, nonce) ==
    [nonce |-> nonce, id |-> "glide", use_case |-> req.UseCase,
     phone_number |-> req.PhoneNumber,
     mcc |-> IF req.PLMN # NilPLMN THEN req.PLMN.MCC ELSE << >>,
     mnc |-> IF req.PLMN # NilPLMN THEN req.PLMN.MNC ELSE << >>,
     consent_data |-> req.ConsentData]

\* apiReq of Verify; "code" is left out when it is empty
numberVerifyApiReq(req) ==
    [phone_number |-> req.PhoneNumber, code |-> req.Code]

\* apiReq of VerifyPhoneNumber and GetPhoneNumber
credentialApiReq(req, ts43dc) ==
    [session |-> req.SessionInfo, ts43_dc |-> ts43dc]

ServiceNames == {"Prepare", "VerifyPhoneNumber", "GetPhoneNumber", "Verify"}

\* mutant: the validation result is not looked at before the request is made
validationPassed_Ignored(err) == TRUE

\* `if err := ...; err != nil { return nil, err }` at the head of a service
validationPassed(err) == err = NilErr

\* a service method: the validation, then (only when it passes) the call of
\* doRequest with one of the payloads; the retry loop of doRequest then runs
\* through RateLimitWait, BackoffWait, PerformAttempt and RetriesExhausted
serviceCall(fn, endpoint, req, verr, payloads) ==
    /\ tpc = "idle"
    /\ attempt' = 0
    /\ lastErr' = NilErr
    /\ hist' = <<>>
    /\ waits' = <<>>
    /\ tokens' = 0
    /\ ctxDone' = FALSE
    /\ IF validationPassed(verr)
         THEN /\ \E p \in payloads :
                    probe' = [fn |-> fn, req |-> req, verr |-> verr,
                              endpoint |-> endpoint, payload |-> p]
              /\ tpc' = "ratelimit"
              /\ ret' = NoRet
         ELSE /\ probe' = [fn |-> fn, req |-> req, verr |-> verr,
                           endpoint |-> "", payload |-> NoPayload]
              /\ tpc' = "done"
              /\ ret' = [body |-> NilBody, err |-> verr]
    /\ UNCHANGED config
    /\ UNCHANGED avars
    /\ UNCHANGED cvars

\* magicAuthService.Prepare
Prepare ==
    \E req \in PrepareRequests :
        serviceCall("Prepare", "/magic-auth/v2/auth/prep", req,
                    validatePrepareRequest(req),
                    {prepareApiReq(req, n) : n \in Nonces})

\* magicAuthService.VerifyPhoneNumber
VerifyPhoneNumber ==
    \E req \in CredentialRequests :
        serviceCall("VerifyPhoneNumber",
                    "/magic-auth/v2/auth/verify-phone-number", req,
                    validateCredentialRequest(req),
                    IF req.Credential = NilCredential THEN {NoPayload}
                    ELSE {credentialApiReq(req, s) :
                            s \in ts43dcStrings(req.Credential)})

\* magicAuthService.GetPhoneNumber
GetPhoneNumber ==
    \E req \in CredentialRequests :
        serviceCall("GetPhoneNumber",
                    "/magic-auth/v2/auth/get-phone-number", req,
                    validateCredentialRequest(req),
                    IF req.Credential = NilCredential THEN {NoPayload}
                    ELSE {credentialApiReq(req, s) :
                            s \in ts43dcStrings(req.Credential)})

\* numberVerifyService.Verify
Verify ==
    \E req \in NumberVerifyRequests :
        serviceCall("Verify", "/number-verify/verify", req,
                    validateNumberVerifyRequest(req),
                    {numberVerifyApiReq(req)})

\* the service method returns to its caller: the locals of the call are gone
\* and the client can be called again
ServiceReturns ==
    /\ tpc = "done"
    /\ probe.fn \in ServiceNames
    /\ tpc' = "idle"
    /\ attempt' = 0
    /\ lastErr' = NilErr
    /\ hist' = <<>>
    /\ waits' = <<>>
    /\ tokens' = 0
    /\ ctxDone' = FALSE
    /\ ret' = NoRet
    /\ probe' = NoProbe
    /\ UNCHANGED config
    /\ UNCHANGED avars
    /\ UNCHANGED cvars

SNext ==
    \/ Prepare
    \/ VerifyPhoneNumber
    \/ GetPhoneNumber
    \/ Verify
    \/ ServiceReturns
    \/ CancelContext
    \/ RateLimitWait
    \/ BackoffWait
    \/ PerformAttempt
    \/ RetriesExhausted

----------------------------------------------------------------------------
(* Specifications *)

Init == TInit /\ AInit /\ PIdle /\ CIdle

Next == TNext

Spec == Init /\ [][Next]_vars

\* the transport is left as New builds it by default
InitAuth ==
    /\ config = [RetryCount |-> 3, RetryDelay |-> 1, RateLimitEnabled |-> FALSE]
    /\ TIdle
    /\ AInit
    /\ PIdle
    /\ CIdle

NextAuth == ANext

SpecAuth == InitAuth /\ [][NextAuth]_vars

\* the functions of package glide applied on their own
InitFn == InitAuth

NextFn == PNext

SpecFn == InitFn /\ [][NextFn]_vars

\* goroutines calling Authenticate(Ciba) at once on a new client
InitConc == InitAuth

NextConc == CNext

SpecConc == InitConc /\ [][NextConc]_vars

\* the services of a client built with WithRetry(1, d), with and without
\* the rate limiter
InitSvc ==
    /\ config \in {c \in Configs : c.RetryCount = 1}
    /\ TIdle
    /\ AInit
    /\ PIdle
    /\ CIdle

NextSvc == SNext

SpecSvc == InitSvc /\ [][NextSvc]_vars

\* VerifyLocation calls on a new GlideClient
InitLoc == InitAuth

NextLoc == LNext

SpecLoc == InitLoc /\ [][NextLoc]_vars

----------------------------------------------------------------------------
(* Claims about doRequest (specification Spec) *)

IsRetryableFailure(out) == out.err # NilErr /\ IsRetryable(out.err)

IsFinalOutcome(out) == out.err = NilErr \/ ~IsRetryable(out.err)

AllRetryableFailures == \A i \in 1 .. Len(hist) : IsRetryableFailure(hist[i])

\* C1: no attempt follows an attempt that succeeded or whose error is not
\* retryable: such an attempt is the last one recorded and doRequest has
\* returned; a non-retryable error on the first attempt ends the call after
\* exactly one attempt, and that error is what doRequest returns.
C1_NoAttemptAfterFinalOutcome ==
    /\ \A i \in 1 .. Len(hist) :
          IsFinalOutcome(hist[i]) => (i = Len(hist) /\ tpc = "done")
    /\ (Len(hist) >= 1 /\ hist[1].err # NilErr /\ ~IsRetryable(hist[1].err))
          => /\ Len(hist) = 1
             /\ ret = [body |-> NilBody, err |-> hist[1].err]

C1_Witness ==
    /\ tpc = "done"
    /\ config.RetryCount >= 1
    /\ Len(hist) = 1
    /\ hist[1].err # NilErr
    /\ ~IsRetryable(hist[1].err)
    /\ ret.err = hist[1].err

\* C2: with RetryCount = n >= 0 a doRequest call makes at most n + 1
\* performRequest calls.
C2_AtMostRetryCountPlusOneAttempts ==
    config.RetryCount >= 0 => Len(hist) <= config.RetryCount + 1

C2_Witness ==
    /\ config.RetryCount >= 2
    /\ Len(hist) = config.RetryCount + 1
    /\ tpc = "done"

\* C3: when the first k attempts (k < RetryCount) fail with retryable errors
\* and attempt k+1 succeeds, doRequest returns that attempt's body with a nil
\* error after exactly k+1 attempts.  Both halves are stated: a success at
\* attempt k+1 is returned at once, and doRequest, unless its context is
\* cancelled, does not return after k < RetryCount retryable failures without
\* making attempt k+1.
C3_RetryThenSuccess ==
    /\ \A j \in 1 .. Len(hist) :
          (j - 1 < config.RetryCount /\ hist[j].err = NilErr
             /\ \A i \in 1 .. j - 1 : IsRetryableFailure(hist[i]))
          => /\ Len(hist) = j
             /\ tpc = "done"
             /\ ret = [body |-> hist[j].body, err |-> NilErr]
    /\ (tpc \in {"done", "exhausted", "panic"} /\ ~ctxDone
          /\ Len(hist) >= 1 /\ AllRetryableFailures)
          => Len(hist) > config.RetryCount

C3_Witness ==
    /\ tpc = "done"
    /\ Len(hist) = 2
    /\ config.RetryCount >= 2
    /\ IsRetryableFailure(hist[1])
    /\ hist[2].err = NilErr
    /\ ret = [body |-> hist[2].body, err |-> NilErr]

\* C4: when all RetryCount + 1 attempts fail with retryable errors, doRequest
\* returns the error of the last attempt.
C4_ExhaustedReturnsLastError ==
    (tpc = "done" /\ config.RetryCount >= 0
       /\ Len(hist) = config.RetryCount + 1 /\ AllRetryableFailures)
    => ret = [body |-> NilBody, err |-> hist[Len(hist)].err]

C4_Witness ==
    /\ tpc = "done"
    /\ config.RetryCount >= 1
    /\ Len(hist) = config.RetryCount + 1
    /\ AllRetryableFailures
    /\ hist[1].err # hist[Len(hist)].err
    /\ ret.err = hist[Len(hist)].err

\* doRequest returned because the rate-limiter wait failed: rate limiting is
\* on and the call left the wait without a token
ReturnedFromRateLimitWait ==
    /\ config.RateLimitEnabled
    /\ tokens = 0
    /\ tpc \notin {"idle", "ratelimit"}

\* doRequest returned from the select of a retry delay: the loop was left
\* with attempts remaining and the delay of the current attempt not waited
ReturnedFromBackoffWait ==
    /\ tpc = "done"
    /\ attempt >= 1
    /\ attempt <= config.RetryCount
    /\ Len(waits) = attempt - 1

\* C13: when rate limiting is enabled and the rate-limiter wait fails,
\* doRequest returns a RATE_LIMIT_EXCEEDED error (no body) and has made no
\* request attempt and no backoff wait.
C13_RateLimitWaitFailure ==
    ReturnedFromRateLimitWait
    => /\ tpc = "done"
       /\ ret = [body |-> NilBody,
                 err |-> [Code |-> "RATE_LIMIT_EXCEEDED", Status |-> 0]]
       /\ hist = <<>>
       /\ waits = <<>>

C13_Witness ==
    /\ ReturnedFromRateLimitWait
    /\ ctxDone
    /\ tpc = "done"
    /\ ret.err.Code = "RATE_LIMIT_EXCEEDED"
    /\ hist = <<>>

\* C14 as claimed: the error doRequest returns when the rate-limiter wait is
\* exhausted is not retryable.
C14_RateLimitErrorNotRetryable ==
    (ReturnedFromRateLimitWait /\ tpc = "done") => ~IsRetryable(ret.err)

\* C15 as claimed: when the context is cancelled while doRequest waits, in
\* the rate-limiter wait or in a retry delay, doRequest returns the generic
\* "Request cancelled" error, and that error is not retryable.
C15_CancelledWaitReturnsCancelled ==
    (ctxDone /\ tpc = "done"
       /\ (ReturnedFromRateLimitWait \/ ReturnedFromBackoffWait))
    => /\ ret = [body |-> NilBody, err |-> requestCancelled]
       /\ ~IsRetryable(ret.err)

\* C17: an attempt whose HTTP exchange fails at the transport level returns
\* a SERVICE_UNAVAILABLE error, which IsRetryable() reports as retryable;
\* while attempts remain doRequest goes on to the next attempt (it only
\* returns earlier when the retry delay is cancelled), and when it was the
\* last attempt doRequest returns SERVICE_UNAVAILABLE.
C17_TransportFailureIsRetried ==
    \A i \in 1 .. Len(hist) :
        hist[i].kind = "transportFail"
        => /\ hist[i].err = [Code |-> "SERVICE_UNAVAILABLE", Status |-> 0]
           /\ IsRetryable(hist[i].err)
           /\ (i = Len(hist) /\ i <= config.RetryCount)
                => \/ tpc \in {"backoff", "perform"}
                   \/ /\ ReturnedFromBackoffWait
                      /\ ctxDone
                      /\ ret.err = requestCancelled
           /\ (i = Len(hist) /\ i = config.RetryCount + 1)
                => \/ tpc = "exhausted"
                   \/ /\ tpc = "done"
                      /\ ret = [body |-> NilBody, err |-> hist[i].err]

C17_Witness ==
    /\ tpc = "done"
    /\ config.RetryCount >= 1
    /\ Len(hist) = config.RetryCount + 1
    /\ \A i \in 1 .. Len(hist) : hist[i].kind = "transportFail"
    /\ ret.err.Code = "SERVICE_UNAVAILABLE"

\* C18: no wait precedes the first attempt, the i-th retry (attempt i + 1)
\* is preceded by exactly i waits, and the i-th wait of a call is
\* RetryDelay * i.
C18_LinearBackoff ==
    /\ Len(hist) = 0 => waits = <<>>
    /\ Len(hist) >= 1 => (Len(hist) - 1 <= Len(waits) /\ Len(waits) <= Len(hist))
    /\ Len(waits) = 0 \/ Len(waits) <= config.RetryCount
    /\ \A i \in 1 .. Len(waits) : waits[i] = config.RetryDelay * i

C18_Witness ==
    /\ config.RetryDelay = 2
    /\ Len(hist) = 3
    /\ waits = <<2, 4>>

----------------------------------------------------------------------------
(* Claims about the GlideClient (specification SpecAuth) *)

NoNetworkCall == call.authCalls = 0 /\ call.tokenCalls = 0

PollErrors ==
    {"poll: " \o how :
        how \in {"readEnv", "newRequest", "transport", "status", "parse"}}

\* the running or last call is a backchannel Authenticate that reached
\* pollCibaToken's loop
InPollingFlow ==
    call.op = "authenticate" /\ call.cfgIn.Provider = Ciba /\ poll.interval >= 1

LastPolled == call.polled[Len(call.polled)]

\* C5: Authenticate called with a cached session whose SessionType is >= the
\* requested Provider returns that cached session, leaves the cache as it
\* was, and makes no authorization request, no token poll and builds no
\* redirect URL.
C5_ReuseReturnsCachedSession ==
    (call.op = "authenticate" /\ call.pre # NoSession
       /\ call.pre.SessionType >= call.cfgIn.Provider)
    => /\ apc = "done"
       /\ call.err = ""
       /\ call.resSession = call.pre
       /\ session = call.pre
       /\ NoNetworkCall
       /\ ~call.urlBuilt
       /\ call.redirectUrl = ""

C5_Witness ==
    /\ call.op = "authenticate"
    /\ call.pre # NoSession
    /\ call.pre.AccessToken \in Tokens
    /\ call.cfgIn.Provider = Ciba
    /\ call.resSession = call.pre
    /\ apc = "done"

\* C6 as claimed: after a successful backchannel Authenticate, the next
\* Authenticate, requesting the backchannel or the redirect grant, makes no
\* network call and returns a session with the same access token (stated for
\* a second call that returns without an error).
C6_Original ==
    (prev.cibaOk /\ call.op = "authenticate" /\ apc = "done"
       /\ call.err = ""
       /\ call.cfgIn.Provider \in {Ciba, ThreeLeggedOAuth2})
    => /\ NoNetworkCall
       /\ call.resSession # NoSession
       /\ call.resSession.AccessToken = prev.token

\* C6 as amended: after a successful backchannel Authenticate, the next
\* Authenticate requesting the backchannel grant makes no network call and
\* returns the cached session, with the same access token; one requesting
\* the redirect grant makes no network call either but is not served from
\* the cache (Ciba = 0 < ThreeLeggedOAuth2 = 1): it returns no session.
C6_ReuseAfterBackchannel ==
    (prev.cibaOk /\ call.op = "authenticate")
    => /\ apc = "done"
       /\ NoNetworkCall
       /\ call.cfgIn.Provider = Ciba
            => /\ call.err = ""
               /\ call.resSession = call.pre
               /\ call.resSession.AccessToken = prev.token
       /\ call.cfgIn.Provider = ThreeLeggedOAuth2
            => /\ call.resSession = NoSession
               /\ call.urlBuilt <=> call.err = ""

C6_Witness ==
    /\ prev.cibaOk
    /\ prev.token \in Tokens
    /\ call.op = "authenticate"
    /\ call.cfgIn.Provider = Ciba
    /\ apc = "done"
    /\ NoNetworkCall
    /\ call.resSession.AccessToken = prev.token

\* the token endpoint answers the first N polls without an access token and
\* poll N + 1 with one (N + 1 = poll.approveAt), and no poll fails
ApprovedWithoutPollError ==
    /\ InPollingFlow
    /\ apc = "done"
    /\ poll.approveAt >= 1
    /\ call.err \notin PollErrors

ReturnedTokenAfterApproval ==
    /\ call.err = ""
    /\ Len(call.polled) = poll.approveAt
    /\ call.tokenCalls = poll.approveAt
    /\ LastPolled \in Tokens
    /\ call.resSession.AccessToken = LastPolled

C8_TimeoutBoundsPolling ==
    (InPollingFlow /\ poll.approveAt = 0 /\ call.err \notin PollErrors)
    => /\ Len(call.polled) * poll.interval <= PollTimeout
       /\ poll.lastRecv >= Len(call.polled) * poll.interval

\* C9 as claimed: after a successful ExchangeCodeForSession the cached session
\* is the exchanged one and its SessionType is ThreeLeggedOAuth2 (stated for
\* a token response that carries an access token).
C9_ExchangedSessionIsThreeLegged ==
    (call.op = "exchange" /\ call.err = ""
       /\ call.resSession.AccessToken \in Tokens)
    => /\ session = call.resSession
       /\ session.SessionType = ThreeLeggedOAuth2

\* C10: when a poll returns an access token, backchannel Authenticate returns
\* a session with that token and SessionType Ciba, and the cached session is
\* that session.
C10_CompletedPollCachesCibaSession ==
    (InPollingFlow /\ Len(call.polled) >= 1 /\ LastPolled \in Tokens)
    => /\ apc = "done"
       /\ call.err = ""
       /\ call.resSession = [AccessToken |-> LastPolled, SessionType |-> Ciba]
       /\ session = call.resSession

C10_Witness ==
    /\ InPollingFlow
    /\ Len(call.polled) >= 2
    /\ LastPolled \in Tokens
    /\ session = [AccessToken |-> LastPolled, SessionType |-> Ciba]
    /\ call.resSession = session

\* a backchannel Authenticate or an ExchangeCodeForSession has just returned
\* a session without an error
AuthenticationSucceeded(c) ==
    /\ c.err = ""
    /\ c.feature = ""
    /\ \/ c.op = "exchange"
       \/ c.op = "authenticate" /\ c.cfgIn.Provider = Ciba
             /\ Len(c.polled) >= 1

\* C11: the cached session changes only in a step that completes a
\* successful backchannel Authenticate or a successful
\* ExchangeCodeForSession, and then it becomes the session that call returns
\* (replaced wholesale); a step that ends an authentication with an error, a
\* redirect-URL or invalid-provider Authenticate, and the downstream request
\* of a feature call leave it as it was; and after a feature call whose
\* downstream request failed, the next Authenticate that the cached session
\* satisfies is still served from the cache without a network call.
C11_SessionFrame ==
    [][ /\ session' # session
            => /\ apc' = "done"
               /\ AuthenticationSucceeded(call')
               /\ session' = call'.resSession
        /\ call'.err # "" => session' = session
        /\ (call'.op = "authenticate" /\ call'.cfgIn.Provider # Ciba)
            => session' = session
        /\ call'.feature # "" => session' = session
        /\ (call.feature = "failed" /\ call' # call
              /\ call'.op = "authenticate" /\ session # NoSession
              /\ session.SessionType >= call'.cfgIn.Provider)
            => /\ call'.resSession = session
               /\ call'.authCalls = 0 /\ call'.tokenCalls = 0
               /\ session' = session
      ]_vars

C11_Witness ==
    /\ prev.featureFailed
    /\ call.op = "authenticate"
    /\ apc = "done"
    /\ call.pre # NoSession
    /\ call.resSession = call.pre
    /\ session = call.pre
    /\ NoNetworkCall

\* C16 as claimed: once the caller has cancelled while Authenticate is
\* polling, no further token-endpoint call is made and Authenticate returns
\* an error.
C16_PollingHonoursCancellation ==
    (InPollingFlow /\ poll.cancelledAt >= 0)
    => /\ call.tokenCalls = poll.cancelledAt
       /\ apc = "done" => call.err # ""

\* C19: a poll whose token-endpoint call fails (the request cannot be
\* executed, the status is not 200, or any other error of fetchCibaToken) is
\* the last poll: Authenticate has returned that error, with no session,
\* and the cached session is as it was before the call.
C19_PollErrorEndsPolling ==
    InPollingFlow
    => \A i \in 1 .. Len(call.polled) :
          call.polled[i] \in PollErrors
          => /\ i = Len(call.polled)
             /\ apc = "done"
             /\ call.err = call.polled[i]
             /\ call.resSession = NoSession
             /\ session = call.pre

C19_Witness ==
    /\ InPollingFlow
    /\ apc = "done"
    /\ Len(call.polled) >= 2
    /\ LastPolled \in {"poll: transport", "poll: status"}
    /\ call.err = LastPolled
    /\ call.tokenCalls = Len(call.polled)
    /\ session = NoSession

\* C20: when the authorization response carries a poll interval below one
\* second, backchannel Authenticate has returned the invalid-interval error
\* without a token-endpoint call or a poll, returns no session and leaves
\* the cached session as it was; an interval of one second or more is not
\* refused.
C20_InvalidIntervalFailsAtOnce ==
    (call.op = "authenticate" /\ poll.answered)
    => /\ poll.interval < 1
            => /\ apc = "done"
               /\ call.err = "invalid interval"
               /\ call.authCalls = 1
               /\ call.tokenCalls = 0
               /\ call.polled = <<>>
               /\ call.resSession = NoSession
               /\ session = call.pre
       /\ poll.interval >= 1 => call.err # "invalid interval"

C20_Witness ==
    /\ call.op = "authenticate"
    /\ call.cfgIn.Provider = Ciba
    /\ poll.answered
    /\ poll.interval < 0
    /\ apc = "done"
    /\ call.err = "invalid interval"
    /\ call.tokenCalls = 0

\* C21: every token-endpoint poll of a backchannel Authenticate carries the
\* auth_req_id that this call's own authorization request returned, which
\* is a new one: no poll carries an auth_req_id issued to an earlier call,
\* also when that call ended in a timeout or a failure.
C21_PollsOwnAuthReqId ==
    (call.op = "authenticate" /\ call.cfgIn.Provider = Ciba)
    => /\ call.polledIds \subseteq {call.authReqId}
       /\ \A id \in call.polledIds : id > prev.issued
       /\ call.tokenCalls > 0
            => /\ call.authCalls = 1
               /\ call.authReqId = prev.issued + 1
               /\ call.polledIds = {call.authReqId}

C21_Witness ==
    /\ prev.abandoned
    /\ prev.issued >= 1
    /\ call.op = "authenticate"
    /\ call.cfgIn.Provider = Ciba
    /\ call.tokenCalls >= 2
    /\ call.polledIds = {prev.issued + 1}

\* C22: Authenticate with the redirect grant and a cache that does not
\* satisfy it (empty, or a session of a lower type) makes no network
\* request, returns no session and leaves the cache as it was; what it
\* returns, unless the URL could not be built from the environment (then it
\* returns that error), is a non-empty authorization URL.  The cache is
\* populated in this flow by ExchangeCodeForSession only: a successful
\* exchange leaves its session in the cache.
C22_RedirectBuildsUrlOnly ==
    /\ (call.op = "authenticate" /\ call.cfgIn.Provider = ThreeLeggedOAuth2
          /\ (call.pre = NoSession
                \/ call.pre.SessionType < ThreeLeggedOAuth2))
        => /\ apc = "done"
           /\ NoNetworkCall
           /\ call.polled = <<>>
           /\ call.resSession = NoSession
           /\ session = call.pre
           /\ call.err = "" => (call.urlBuilt /\ call.redirectUrl # "")
           /\ call.err # "" => (call.err = "redirect url"
                                  /\ call.redirectUrl = "")
    /\ (call.op = "exchange" /\ call.err = "")
        => (session = call.resSession /\ call.tokenCalls = 1)

C22_Witness ==
    /\ call.op = "authenticate"
    /\ call.cfgIn.Provider = ThreeLeggedOAuth2
    /\ call.pre # NoSession
    /\ call.pre.SessionType = Ciba
    /\ call.err = ""
    /\ call.redirectUrl # ""
    /\ call.resSession = NoSession
    /\ session = call.pre
    /\ NoNetworkCall

----------------------------------------------------------------------------
(* Claims about concurrent callers (specification SpecConc) *)

FlowsRun == Cardinality({c \in CallerIds : callers[c].ranFlow})

\* C23 as claimed: of any number of goroutines that call backchannel
\* Authenticate at once on a client with an empty cache, at most two run an
\* authentication flow, and a caller that was served from the cache holds
\* the session that some flow stored.
C23_AtMostOneRedundantFlow ==
    /\ FlowsRun <= 2
    /\ \A c \in CallerIds :
          (callers[c].pc = "done" /\ ~callers[c].ranFlow)
          => \E d \in CallerIds : callers[d].ranFlow
                                    /\ callers[d].res = callers[c].res

----------------------------------------------------------------------------
(* Claims about the functions of package glide (specification SpecFn) *)

\* C12: IsRetryable() is true if and only if the code is in the fixed
\* retryable set or 500 <= Status < 600; RATE_LIMIT_EXCEEDED,
\* SERVICE_UNAVAILABLE and the upstream, gateway and timeout codes are in
\* that set, so errors carrying them are retryable whatever their status;
\* an error with a 4xx status or no status and a code outside the set is
\* not retryable.
C12_IsRetryableIff ==
    probe.fn = "IsRetryable"
    => LET e == probe.err IN
       /\ probe.retryable
            <=> (e.Code \in RetryableCodes
                   \/ (500 <= e.Status /\ e.Status < 600))
       /\ e.Code \in {"RATE_LIMIT_EXCEEDED", "SERVICE_UNAVAILABLE",
                       "BAD_GATEWAY", "UPSTREAM_ERROR", "GATEWAY_TIMEOUT",
                       "REQUEST_TIMEOUT", "UPSTREAM_TIMEOUT",
                       "DEADLINE_EXCEEDED"}
            => probe.retryable
       /\ ((e.Status = 0 \/ (400 <= e.Status /\ e.Status < 500))
              /\ e.Code \notin RetryableCodes)
            => ~probe.retryable

C12_Witness ==
    /\ probe.fn = "IsRetryable"
    /\ probe.err.Code \notin RetryableCodes
    /\ probe.err.Status = 599
    /\ probe.retryable

\* the body carries an error: it parses as JSON with a non-empty code
BodyHasCode == probe.body.json /\ probe.body.code # ""

ClaimedGenericCode(status) ==
    CASE status = 400 -> {"BAD_REQUEST"}
      [] status = 404 -> {"SESSION_NOT_FOUND", "NOT_FOUND"}
      [] status = 422 -> {"UNPROCESSABLE_ENTITY"}
      [] status = 429 -> {"RATE_LIMIT_EXCEEDED"}
      [] status = 503 -> {"SERVICE_UNAVAILABLE"}
      [] OTHER -> {"INTERNAL_SERVER_ERROR"}

StatusInMessage == probe.err.Message = "Unexpected status: " \o ToString(probe.status)

\* C25 as claimed: without a coded JSON body the code is given by the status
\* alone (400, 404, 422, 429, 503 to their codes, every other status to
\* INTERNAL_SERVER_ERROR), Status is the HTTP status, and for every status
\* that is none of those five and below 500 the message carries the status.
C25_Original ==
    (probe.fn = "parseErrorResponse" /\ ~BodyHasCode)
    => /\ probe.err.Code \in ClaimedGenericCode(probe.status)
       /\ probe.err.Status = probe.status
       /\ (probe.status \notin {400, 404, 422, 429, 503} /\ probe.status < 500)
            => StatusInMessage

\* C25 as amended: the same mapping of codes and Status (404 gives
\* SESSION_NOT_FOUND); 401 and 403 have cases of their own: they give
\* INTERNAL_SERVER_ERROR with the fixed messages "Authentication failed" and
\* "Access denied"; only the remaining statuses below 500 carry the status
\* in the message; request id and details are empty.
C25_GenericErrorByStatus ==
    (probe.fn = "parseErrorResponse" /\ ~BodyHasCode)
    => /\ probe.err.Code \in ClaimedGenericCode(probe.status)
       /\ probe.status = 404 => probe.err.Code = "SESSION_NOT_FOUND"
       /\ probe.err.Status = probe.status
       /\ probe.status = 401 => probe.err.Message = "Authentication failed"
       /\ probe.status = 403 => probe.err.Message = "Access denied"
       /\ (probe.status \notin {400, 401, 403, 404, 422, 429, 503}
              /\ probe.status < 500)
            => StatusInMessage
       /\ (probe.status \notin {503} /\ probe.status >= 500)
            => probe.err.Message = "Server error occurred"
       /\ probe.err.RequestID = ""
       /\ probe.err.Details = {}
       /\ brief(probe.err) = parseErrorResponse(probe.status, "")

C25_Witness ==
    /\ probe.fn = "parseErrorResponse"
    /\ probe.body.json
    /\ probe.body.code = ""
    /\ probe.body.message # ""
    /\ probe.status = 401
    /\ probe.err.Code = "INTERNAL_SERVER_ERROR"
    /\ probe.err.Status = 401

\* C26 as claimed: the Details of an Error built from a server error
\* response hold no key other than retry_after, session_id and use_case.
C26_OnlySafeDetailKeys ==
    probe.fn \in {"parseErrorResponse", "roundTrip"}
    => \A kv \in probe.err.Details :
          kv[1] \in {"retry_after", "session_id", "use_case"}

----------------------------------------------------------------------------
(* Properties of the services *)

\* the last service call was turned down by its validation
RejectedByValidation == probe.fn \in ServiceNames /\ probe.verr # NilErr

\* C27: a request that the validation of Prepare, VerifyPhoneNumber,
\* GetPhoneNumber or Verify rejects never reaches the transport: the call
\* has returned the validation error, no rate-limiter token was taken, no
\* HTTP attempt was made and no payload was handed to doRequest.
C27_ValidationBeforeTransport ==
    RejectedByValidation =>
        /\ tokens = 0
        /\ hist = <<>>
        /\ probe.payload = NoPayload
        /\ tpc = "done"
        /\ ret = [body |-> NilBody, err |-> probe.verr]

\* a Prepare request with a malformed phone number was rejected on a client
\* whose rate limiter is on
C27_Witness ==
    /\ RejectedByValidation
    /\ probe.fn = "Prepare"
    /\ probe.req.UseCase = UseCaseVerifyPhoneNumber
    /\ ValidatePhoneNumber(probe.req.PhoneNumber) # NilErr
    /\ config.RateLimitEnabled
    /\ tokens = 0
    /\ hist = <<>>

\* no carrier token can be extracted from vp_token: it is absent, an empty
\* string, an empty map, or a map with no string value
NoCarrierToken(credential) ==
    \/ ~hasKey(credential, "vp_token")
    \/ LET vt == (CHOOSE p \in credential : p[1] = "vp_token")[2] IN
        \/ vt.t = "string" /\ vt.s = ""
        \/ vt.t = "object" /\ \A p \in vt.m : p[2].t # "string"

\* C28: VerifyPhoneNumber and GetPhoneNumber, given a session and a
\* credential from which no carrier token can be extracted, return
\* INVALID_CREDENTIAL_FORMAT and hand no payload to the transport.
C28_FailsClosedOnCredential ==
    ( /\ probe.fn \in {"VerifyPhoneNumber", "GetPhoneNumber"}
      /\ probe.verr = NilErr
      /\ NoCarrierToken(probe.req.Credential) ) =>
        /\ probe.payload = NoPayload
        /\ hist = <<>>
        /\ tpc = "done"
        /\ ret.err.Code = ErrCodeInvalidCredentialFormat

----------------------------------------------------------------------------
(* Properties of the errors doRequest returns *)

\* the codes an error built from a server's error response can carry
ServerReportedCodes ==
    {parseErrorResponse(status, code).Code :
        status \in {s \in Statuses : s >= 400}, code \in BodyCodes}

\* C29 as claimed: the error doRequest returns for a cancellation (the
\* context is done while the call waits for the rate limiter or for a retry
\* delay) has a code that no server-reported failure carries.
C29_CancellationCodeDistinct ==
    (ctxDone /\ tpc = "done"
       /\ (ReturnedFromRateLimitWait \/ ReturnedFromBackoffWait))
    => ret.err.Code \notin ServerReportedCodes

\* C30 as claimed: doRequest never crashes, and a call that has returned
\* gave either a body with a nil error or no body with a non-nil error.
C30_ReturnsBodyOrError ==
    /\ tpc # "panic"
    /\ tpc = "done" =>
        \/ ret.body # NilBody /\ ret.err = NilErr
        \/ ret.body = NilBody /\ ret.err # NilErr

----------------------------------------------------------------------------
(* Properties of Authenticate's argument *)

\* C31 as claimed: after an Authenticate call, whatever its outcome, the
\* AuthConfig the caller passed (Provider, BaseAuthConfig with its Scopes and
\* LoginHint) is as it was when the call was made.
C31_AuthConfigUnchanged ==
    call.op = "authenticate" => call.cfgOut = call.cfgIn

----------------------------------------------------------------------------
(* Properties of the validation functions *)

\* p matches `^\+[1-9]\d{1,14}$`
MatchesE164(p) ==
    /\ Len(p) >= 3
    /\ Len(p) <= 16
    /\ p[1] = "+"
    /\ p[2] \in Digits \ {"0"}
    /\ \A i \in 3 .. Len(p) : p[i] \in Digits

\* C32 as claimed: ValidatePhoneNumber(p) returns nil exactly when p matches
\* `^\+[1-9]\d{1,14}$`, and a rejection carries INVALID_PHONE_NUMBER.
C32_Original ==
    probe.fn = "ValidatePhoneNumber" =>
        /\ probe.err = NilErr <=> MatchesE164(probe.in)
        /\ probe.err # NilErr => probe.err.Code = ErrCodeInvalidPhoneNumber

\* C32: ValidatePhoneNumber(p) returns nil exactly when p is empty or matches
\* `^\+[1-9]\d{1,14}$` and has at least 8 characters; every other p is
\* rejected with INVALID_PHONE_NUMBER.
C32_PhoneNumberAccepted ==
    probe.fn = "ValidatePhoneNumber" =>
        /\ probe.err = NilErr <=>
              \/ probe.in = << >>
              \/ MatchesE164(probe.in) /\ Len(probe.in) >= 8
        /\ probe.err # NilErr => probe.err = NewError(ErrCodeInvalidPhoneNumber)

\* a number that matches the pattern and is shorter than 8 characters was
\* rejected
C32_Witness ==
    /\ probe.fn = "ValidatePhoneNumber"
    /\ MatchesE164(probe.in)
    /\ Len(probe.in) = 7
    /\ probe.err = NewError(ErrCodeInvalidPhoneNumber)

\* s is n decimal digits
IsDigits(s, n) == Len(s) = n /\ \A i \in 1 .. Len(s) : s[i] \in Digits

\* C34: ValidatePLMN on a non-nil PLMN returns nil exactly when MCC is 3
\* decimal digits and MNC is 2 or 3 decimal digits (no range check: MCC 999
\* passes); otherwise it fails with INVALID_MCC_MNC.
C34_PLMNAccepted ==
    probe.fn = "ValidatePLMN" =>
        /\ probe.err = NilErr <=>
              /\ IsDigits(probe.in.MCC, 3)
              /\ IsDigits(probe.in.MNC, 2) \/ IsDigits(probe.in.MNC, 3)
        /\ probe.err # NilErr => probe.err = NewError(ErrCodeInvalidMCCMNC)
        /\ probe.in.MCC = <<"9", "9", "9">> /\ probe.in.MNC = <<"9", "9">>
              => probe.err = NilErr

\* the unofficial MCC 999 was accepted
C34_Witness ==
    /\ probe.fn = "ValidatePLMN"
    /\ probe.in = [MCC |-> <<"9", "9", "9">>, MNC |-> <<"9", "9">>]
    /\ probe.err = NilErr

\* C33: a Prepare request with use case GetPhoneNumber passes validation
\* only if it has a PLMN and no phone number, one with use case
\* VerifyPhoneNumber only if it has a phone number (with or without a PLMN);
\* a missing PLMN or phone number is reported with MISSING_PARAMETERS, and
\* any other use case is rejected.
C33_UseCaseRequirements ==
    probe.fn = "Prepare" =>
        LET r == probe.req
            accepted == probe.verr = NilErr
        IN
        /\ (accepted /\ r.UseCase = UseCaseGetPhoneNumber)
              => r.PLMN # NilPLMN /\ r.PhoneNumber = << >>
        /\ (accepted /\ r.UseCase = UseCaseVerifyPhoneNumber)
              => r.PhoneNumber # << >>
        /\ (r.UseCase = UseCaseGetPhoneNumber /\ r.PhoneNumber = << >>
              /\ r.PLMN = NilPLMN)
              => probe.verr = NewError(ErrCodeMissingParameters)
        /\ (r.UseCase = UseCaseVerifyPhoneNumber /\ r.PhoneNumber = << >>)
              => probe.verr = NewError(ErrCodeMissingParameters)
        /\ r.UseCase \notin {UseCaseGetPhoneNumber, UseCaseVerifyPhoneNumber}
              => ~accepted
        /\ (r.UseCase = UseCaseVerifyPhoneNumber /\ r.PLMN = NilPLMN
              /\ ValidatePhoneNumber(r.PhoneNumber) = NilErr
              /\ r.PhoneNumber # << >> /\ r.ConsentData = NilConsentData)
              => accepted

\* a GetPhoneNumber request without a PLMN was rejected as missing a
\* parameter
C33_Witness ==
    /\ probe.fn = "Prepare"
    /\ probe.req.UseCase = UseCaseGetPhoneNumber
    /\ probe.req.PhoneNumber = << >>
    /\ probe.req.PLMN = NilPLMN
    /\ probe.verr = NewError(ErrCodeMissingParameters)
    /\ tpc = "done"

----------------------------------------------------------------------------
(* Properties of the rate limiter *)

\* C37: with rate limiting enabled a doRequest call takes one token from the
\* limiter, before its first attempt, and none after: whenever the call has
\* made an attempt (the first or a retry) it holds exactly one token, and it
\* never holds more.
C37_OneTokenPerCall ==
    config.RateLimitEnabled =>
        /\ tokens <= 1
        /\ Len(hist) >= 1 => tokens = 1
        /\ tpc \in {"perform", "backoff", "exhausted"} => tokens = 1

\* a call that retried twice: three HTTP requests for the one token
C37_Witness ==
    /\ config.RateLimitEnabled
    /\ Len(hist) = 3
    /\ Len(waits) = 2
    /\ tokens = 1

----------------------------------------------------------------------------
(* Properties of the polling timeout *)

\* C39 as claimed: when pollCibaToken reports the polling timeout it has
\* called the token endpoint at least once, whatever the (valid) interval.
C39_NoTimeoutBeforeFirstPoll ==
    (call.op = "authenticate" /\ call.err = "ciba token polling timeout")
    => Len(call.polled) >= 1

----------------------------------------------------------------------------
(* Properties of the reuse of a cached session by later calls *)

\* C35 as claimed: an Authenticate call that requests the redirect grant
\* right after a successful ExchangeCodeForSession returns the cached
\* session and no redirect URL (so a number-verification call goes on to its
\* downstream request).
C35_RedirectReusesExchangedSession ==
    (prev.exchangeOk /\ call.op = "authenticate"
       /\ call.cfgIn.Provider = ThreeLeggedOAuth2)
    => /\ call.err = ""
       /\ call.redirectUrl = ""
       /\ call.resSession = call.pre
       /\ call.resSession # NoSession
       /\ call.feature # "session required"

\* C36: when a backchannel Authenticate has run the flow to a session, the
\* next Authenticate that requests the backchannel grant with another
\* BaseAuthConfig (other scopes, another login hint, or none) returns that
\* session, with the same token, leaves the cache alone and makes no
\* authorization request and no token poll.
C36_ReuseIgnoresBaseAuthConfig ==
    (prev.cibaOk /\ call.op = "authenticate"
       /\ call.cfgIn.Provider = Ciba /\ call.cfgIn.Base # prev.base)
    => /\ apc = "done"
       /\ call.err = ""
       /\ call.resSession = call.pre
       /\ call.resSession.AccessToken = prev.token
       /\ session = call.pre
       /\ call.authCalls = 0
       /\ call.tokenCalls = 0
       /\ call.authReqId = 0

\* the first call was made for the login hint tel:+1, the second without a
\* BaseAuthConfig
C36_Witness ==
    /\ prev.cibaOk
    /\ prev.base # NilBase
    /\ prev.base.LoginHint = "tel:+1"
    /\ call.op = "authenticate"
    /\ call.cfgIn = [Provider |-> Ciba, Base |-> NilBase]
    /\ call.resSession.AccessToken = prev.token
    /\ prev.token \in Tokens
    /\ call.authCalls = 0

----------------------------------------------------------------------------
(* Properties of VerifyLocation *)

\* the login hint the device id of a location stands for
DeviceLoginHint(location) == locationLoginHint(location, "")

\* C38 as claimed: the backchannel authorization request that VerifyLocation
\* makes through Authenticate carries the login hint derived from the device
\* id (tel:<number> or ipport:<address>).
C38_AuthorizationCarriesLoginHint ==
    (call.op = "authenticate" /\ call.location # NoLocation
       /\ call.authCalls >= 1
       /\ deviceIDType(call.location) \in {PHONE_NUMBER, IPV4, IPV6})
    => call.sentHint = DeviceLoginHint(call.location)

====
